---- MODULE Spec2Model ----
(***************************************************************************)
(* The diagnostic routing engine of src/notion_client.py:                  *)
(* NotionClient.run_diagnostic_routing, _choose_next_node and              *)
(* _choose_by_routing, as a state machine that takes one loop iteration of *)
(* the traversal per step.                                                 *)
(*                                                                         *)
(* Text (str) is a sequence of one-character strings, so that substring    *)
(* tests, split(",") and strip() are computed as Python computes them.     *)
(* The fixed Japanese labels of the source are not ASCII; each label is    *)
(* one token of the sequence, named in ASCII below.                        *)
(* A JSON value whose type the code does not check (routing, candidate,    *)
(* weight, threshold, next_nodes_map) is a record with a type tag t.       *)
(*                                                                         *)
(* _parse_routing_config is modelled on memo texts that are sequences of   *)
(* JSON lexemes. A second call of run_diagnostic_routing on the same node  *)
(* list keeps its locals in the record `other`.                            *)
(***************************************************************************)
EXTENDS Integers, Sequences, FiniteSets, TLC

VARIABLES
    nodes,          \* diagnostic_data["nodes"]: the list of node records
    user_input,     \* the user's text
    node_index,     \* node_id -> position in nodes of the indexed record
    pc,             \* where the call is
    current_node,   \* position in nodes of current_node (0 before the loop)
    hop,            \* iterations of the loop completed
    seen_nodes,     \* the set seen_nodes
    routed_from,    \* position of the node last handed to _choose_next_node
    result,         \* the returned dict
    other,          \* the locals of a second call on the same node list
    memo_content,   \* the memo text handed to _parse_routing_config
    parsed          \* what _parse_routing_config did with it

vars == <<nodes, user_input, node_index, pc, current_node, hop, seen_nodes,
          routed_from, result, other, memo_content, parsed>>

----------------------------------------------------------------------------
(* Program constants *)

HopLimit == 20

DefaultThreshold == 0

DefaultWeight == 1

InitialBestScore == -1

InitialBestKeywordCount == 0

(* Bounds of the model *)

MaxNodes == 3

MaxCands == 2

MaxMemo == 5

ChainLen == 22

----------------------------------------------------------------------------
(* Python str operations on sequences of characters *)

Whitespace == {" ", "\t", "\n"}

\* kw in user_input
IsSubstring(kw, text) ==
    \E i \in 0..(Len(text) - Len(kw)) : SubSeq(text, i + 1, i + Len(kw)) = kw

RECURSIVE LStrip(_)
LStrip(s) ==
    IF s # <<>> /\ Head(s) \in Whitespace THEN LStrip(Tail(s)) ELSE s

RECURSIVE RStrip(_)
RStrip(s) ==
    IF s # <<>> /\ s[Len(s)] \in Whitespace
    THEN RStrip(SubSeq(s, 1, Len(s) - 1))
    ELSE s

\* id.strip()
Strip(s) == RStrip(LStrip(s))

\* next_raw.split(",")
RECURSIVE Split(_, _)
Split(s, sep) ==
    IF \A i \in 1..Len(s) : s[i] # sep
    THEN <<s>>
    ELSE LET k == CHOOSE i \in 1..Len(s) :
                      s[i] = sep /\ \A j \in 1..(i - 1) : s[j] # sep
         IN  <<SubSeq(s, 1, k - 1)>> \o Split(SubSeq(s, k + 1, Len(s)), sep)

\* [id.strip() for id in next_raw.split(",")]
NextIds(next_raw) ==
    LET parts == Split(next_raw, ",")
    IN  [k \in 1..Len(parts) |-> Strip(parts[k])]

\* "\n\n".join(output_parts)
RECURSIVE Join(_, _)
Join(parts, sep) ==
    IF parts = <<>> THEN <<>>
    ELSE IF Len(parts) = 1 THEN parts[1]
    ELSE parts[1] \o sep \o Join(Tail(parts), sep)

----------------------------------------------------------------------------
(* The fixed texts of the result *)

\* "フォールバック診断（暫定）:\n"
FallbackPrefix == <<"FOORUBAKKU-SHINDAN(ZANTEI):", "\n">>

\* "診断結果:\n"
ResultLabel == <<"SHINDAN-KEKKA:", "\n">>

\* "修理手順:\n"
StepsLabel == <<"SHUURI-TEJUN:", "\n">>

\* "注意事項:\n"
CautionsLabel == <<"CHUUI-JIKOU:", "\n">>

\* "診断完了"
DoneText == <<"SHINDAN-KANRYOU">>

\* the fallback dict without its fixed prefix
FallbackResultNoPrefix(text) == [text |-> text, end |-> TRUE]

\* the fallback dict without the user's text
FallbackResultNoEcho(text) == [text |-> FallbackPrefix, end |-> TRUE]

\* {"text": "フォールバック診断（暫定）:\n" + user_input, "end": True}
FallbackResult(text) == [text |-> FallbackPrefix \o text, end |-> TRUE]

\* the terminal branch appending every field, empty or not
TerminalResultKeepEmpty(node) ==
    [text |-> Join(<<ResultLabel \o node.result, StepsLabel \o node.steps,
                     CautionsLabel \o node.cautions>>, <<"\n", "\n">>),
     end |-> TRUE]

\* the terminal branch returning the join of output_parts even when it is empty
TerminalResultEmptyJoin(node) ==
    LET p1 == IF node.result # <<>> THEN <<ResultLabel \o node.result>> ELSE <<>>
        p2 == IF node.steps # <<>> THEN <<StepsLabel \o node.steps>> ELSE <<>>
        p3 == IF node.cautions # <<>>
              THEN <<CautionsLabel \o node.cautions>> ELSE <<>>
    IN  [text |-> Join(p1 \o p2 \o p3, <<"\n", "\n">>), end |-> TRUE]

\* the terminal branch: output_parts, the join and the returned dict
TerminalResult(node) ==
    LET p1 == IF node.result # <<>> THEN <<ResultLabel \o node.result>> ELSE <<>>
        p2 == IF node.steps # <<>> THEN <<StepsLabel \o node.steps>> ELSE <<>>
        p3 == IF node.cautions # <<>>
              THEN <<CautionsLabel \o node.cautions>> ELSE <<>>
        output_parts == p1 \o p2 \o p3
    IN  [text |-> IF output_parts # <<>>
                  THEN Join(output_parts, <<"\n", "\n">>)
                  ELSE DoneText,
         end |-> TRUE]

\* no dict has been returned yet
NoResult == [text |-> <<>>, end |-> FALSE]

----------------------------------------------------------------------------
(* JSON values of unchecked type *)

Missing == [t |-> "missing", v |-> 0]

Null == [t |-> "null", v |-> 0]

Num(n) == [t |-> "num", v |-> n]

\* a candidate of next_nodes_map that is a JSON object
Cand(id, keywords, weight, fallback) ==
    [t |-> "obj", id |-> id, keywords |-> keywords, weight |-> weight,
     fallback |-> fallback]

\* a candidate of next_nodes_map that is a JSON string
StrCand ==
    [t |-> "str", id |-> <<>>, keywords |-> <<>>, weight |-> Missing,
     fallback |-> FALSE]

ListOf(cands) == [t |-> "list", v |-> cands]

NoList == [t |-> "missing", v |-> <<>>]

NumList == [t |-> "num", v |-> <<>>]

\* node["routing"] is None
NoRouting ==
    [t |-> "null", next_nodes_map |-> NoList, threshold |-> Missing,
     tie_breaker_rule |-> ""]

\* node["routing"] is a JSON object; tie_breaker_rule "" is an absent key
Routing(map, threshold, tie) ==
    [t |-> "obj", next_nodes_map |-> map, threshold |-> threshold,
     tie_breaker_rule |-> tie]

\* node["routing"] is a non-empty JSON string
StrRouting ==
    [t |-> "str", next_nodes_map |-> NoList, threshold |-> Missing,
     tie_breaker_rule |-> ""]

\* bool(routing_config)
RoutingTruthy(r) ==
    \/ r.t = "str"
    \/ /\ r.t = "obj"
       /\ \/ r.next_nodes_map.t # "missing"
          \/ r.threshold.t # "missing"
          \/ r.tie_breaker_rule # ""

\* bool(routing_config.get("next_nodes_map"))
MapTruthy(m) ==
    \/ m.t = "num"
    \/ m.t = "list" /\ m.v # <<>>

\* one node record of diagnostic_data["nodes"]
Node(id, start, terminal, next_raw, routing, res, steps, cautions) ==
    [node_id |-> id, start |-> start, terminal |-> terminal,
     next_raw |-> next_raw, routing |-> routing,
     result |-> res, steps |-> steps, cautions |-> cautions]

----------------------------------------------------------------------------
(* run_diagnostic_routing: the index and the start node *)

\* an index that keeps the first record of each node_id
NodeIndexFirstWins(ns) ==
    LET ids == {ns[i].node_id : i \in 1..Len(ns)} \ {<<>>}
    IN  [id \in ids |->
            CHOOSE i \in 1..Len(ns) :
                /\ ns[i].node_id = id
                /\ \A j \in 1..Len(ns) : ns[j].node_id = id => i <= j]

\* {node["node_id"]: node for node in nodes}, empty ids included
NodeIndexKeepsEmpty(ns) ==
    LET ids == {ns[i].node_id : i \in 1..Len(ns)}
    IN  [id \in ids |->
            CHOOSE i \in 1..Len(ns) :
                /\ ns[i].node_id = id
                /\ \A j \in 1..Len(ns) : ns[j].node_id = id => j <= i]

\* {node["node_id"]: node for node in nodes if node.get("node_id")}
NodeIndex(ns) ==
    LET ids == {ns[i].node_id : i \in 1..Len(ns)} \ {<<>>}
    IN  [id \in ids |->
            CHOOSE i \in 1..Len(ns) :
                /\ ns[i].node_id = id
                /\ \A j \in 1..Len(ns) : ns[j].node_id = id => j <= i]

\* [node for node in nodes if node.get("start", False)], as positions
StartNodes(ns) ==
    SelectSeq([i \in 1..Len(ns) |-> i], LAMBDA i : ns[i].start)

\* start_nodes[-1]
LastStartNode(ns) == StartNodes(ns)[Len(StartNodes(ns))]

\* the registry's record for the id of start_nodes[0]
FirstStartNodeByRegistry(ns) ==
    IF ns[StartNodes(ns)[1]].node_id = <<>>
    THEN StartNodes(ns)[1]
    ELSE NodeIndex(ns)[ns[StartNodes(ns)[1]].node_id]

\* start_nodes[0]
FirstStartNode(ns) == StartNodes(ns)[1]

----------------------------------------------------------------------------
(* _choose_by_routing *)

\* sum(1 for kw in keywords if kw in user_input)
RECURSIVE Hits(_, _)
Hits(keywords, text) ==
    IF keywords = <<>> THEN 0
    ELSE (IF IsSubstring(Head(keywords), text) THEN 1 ELSE 0)
         + Hits(Tail(keywords), text)

\* the state of the loop were best_score to start at 0
InitialBestFromZero ==
    [best |-> 0, best_score |-> 0,
     best_keyword_count |-> InitialBestKeywordCount, raised |-> FALSE]

\* the locals before the first candidate
InitialBest ==
    [best |-> 0, best_score |-> InitialBestScore,
     best_keyword_count |-> InitialBestKeywordCount, raised |-> FALSE]

\* score > best_score or (score == best_score and tie_breaker_rule ==
\* "specific_over_generic" and keyword_count > best_keyword_count)
Better(score, keyword_count, acc, tie) ==
    \/ score > acc.best_score
    \/ /\ score = acc.best_score
       /\ tie = "specific_over_generic"
       /\ keyword_count > acc.best_keyword_count

\* one pass of the body of "for candidate in next_nodes_map" (the first loop)
CandidateStep(acc, candidate, k, text, routing, index) ==
    IF acc.raised THEN acc
    ELSE IF candidate.t # "obj"
    THEN [acc EXCEPT !.raised = TRUE]            \* candidate.get: AttributeError
    ELSE IF candidate.id = <<>> \/ candidate.id \notin DOMAIN index
    THEN acc                                       \* continue
    ELSE IF candidate.weight.t = "null" \/ routing.threshold.t = "null"
    THEN [acc EXCEPT !.raised = TRUE]            \* hits * None, score >= None
    ELSE LET weight == IF candidate.weight.t = "missing"
                       THEN DefaultWeight ELSE candidate.weight.v
             threshold == IF routing.threshold.t = "missing"
                          THEN DefaultThreshold ELSE routing.threshold.v
             hits == Hits(candidate.keywords, text)
             score == hits * weight
             keyword_count == Len(candidate.keywords)
         IN  IF /\ score >= threshold
                /\ Better(score, keyword_count, acc, routing.tie_breaker_rule)
             THEN [acc EXCEPT !.best = k, !.best_score = score,
                              !.best_keyword_count = keyword_count]
             ELSE acc

\* the first loop over the candidates 1..k
RECURSIVE ScoreLoop(_, _, _, _, _)
ScoreLoop(cands, k, text, routing, index) ==
    IF k = 0 THEN InitialBest
    ELSE CandidateStep(ScoreLoop(cands, k - 1, text, routing, index),
                       cands[k], k, text, routing, index)

\* the second loop, taking a fallback-flagged candidate without looking it up
FallbackCandidateUnresolved(cands, index) ==
    LET flagged == {k \in 1..Len(cands) : cands[k].fallback}
    IN  IF flagged = {} THEN 0
        ELSE CHOOSE k \in flagged : \A j \in flagged : k <= j

\* the second loop: the first candidate with fallback set whose id is indexed
FallbackCandidate(cands, index) ==
    LET ok == {k \in 1..Len(cands) :
                  cands[k].fallback /\ cands[k].id \in DOMAIN index}
    IN  IF ok = {} THEN 0
        ELSE CHOOSE k \in ok : \A j \in ok : k <= j

NoNode == [kind |-> "none", idx |-> 0]

Raise == [kind |-> "raise", idx |-> 0]

Found(i) == [kind |-> "node", idx |-> i]

\* _choose_by_routing scoring every candidate and looking the best one up
\* afterwards: a best candidate that is not indexed ends the choice
ChooseByRoutingResolveLast(text, node, index) ==
    LET routing == node.routing
        map == routing.next_nodes_map
    IN  IF ~RoutingTruthy(routing) THEN NoNode
        ELSE IF map.t = "num" THEN Raise
        ELSE LET cands == map.v
                 all == [id \in {cands[k].id : k \in 1..Len(cands)} |-> 0]
                 acc == ScoreLoop(cands, Len(cands), text, routing, all)
                 fb == FallbackCandidate(cands, index)
             IN  IF acc.raised THEN Raise
                 ELSE IF acc.best # 0
                 THEN IF cands[acc.best].id \in DOMAIN index
                      THEN Found(index[cands[acc.best].id]) ELSE NoNode
                 ELSE IF fb # 0 THEN Found(index[cands[fb].id])
                 ELSE NoNode

\* _choose_by_routing(user_input, current_node, node_index)
ChooseByRouting(text, node, index) ==
    LET routing == node.routing
        map == routing.next_nodes_map
    IN  IF ~RoutingTruthy(routing) THEN NoNode
        ELSE IF map.t = "num" THEN Raise          \* for candidate in <number>
        ELSE LET cands == map.v
                 acc == ScoreLoop(cands, Len(cands), text, routing, index)
                 fb == FallbackCandidate(cands, index)
             IN  IF acc.raised THEN Raise
                 ELSE IF acc.best # 0 THEN Found(index[cands[acc.best].id])
                 ELSE IF fb # 0 /\ cands[fb].id \in DOMAIN index
                 THEN Found(index[cands[fb].id])
                 ELSE NoNode

----------------------------------------------------------------------------
(* _choose_next_node *)

\* step 2 taking only the first id of next_raw
NextRawFirstOnly(node, index) ==
    IF node.next_raw = <<>> THEN NoNode
    ELSE LET next_ids == NextIds(node.next_raw)
         IN  IF next_ids[1] \in DOMAIN index
             THEN Found(index[next_ids[1]]) ELSE NoNode

\* step 2 that hands back the node itself when no id of next_raw is indexed
NextRawChoiceOrStay(node, index) ==
    LET next_ids == NextIds(node.next_raw)
        ok == {k \in 1..Len(next_ids) : next_ids[k] \in DOMAIN index}
    IN  IF node.next_raw # <<>> /\ ok # {}
        THEN Found(index[next_ids[CHOOSE k \in ok : \A j \in ok : k <= j]])
        ELSE IF node.node_id \in DOMAIN index
        THEN Found(index[node.node_id]) ELSE NoNode

\* step 2: the first id of next_raw that is in node_index
NextRawChoice(node, index) ==
    IF node.next_raw = <<>> THEN NoNode
    ELSE LET next_ids == NextIds(node.next_raw)
             ok == {k \in 1..Len(next_ids) : next_ids[k] \in DOMAIN index}
         IN  IF ok = {} THEN NoNode
             ELSE Found(index[next_ids[CHOOSE k \in ok : \A j \in ok : k <= j]])

\* _choose_next_node(user_input, current_node, node_index)
ChooseNextNode(text, node, index) ==
    LET routing == node.routing
        byRouting == ChooseByRouting(text, node, index)
    IN  IF routing.t = "str" THEN Raise       \* str.get: AttributeError
        ELSE IF /\ RoutingTruthy(routing)
                /\ MapTruthy(routing.next_nodes_map)
                /\ byRouting.kind # "none"
        THEN byRouting
        ELSE NextRawChoice(node, index)

----------------------------------------------------------------------------
(* _parse_routing_config *)

\* The memo text is a sequence of lexemes: the braces, the brackets, the
\* colon and the comma, JSON strings (written with single quotes here), the
\* number 1, null. Text outside the span of the braces is made of the same
\* lexemes.
KeyRoutingConfig == "'routing_config'"

JsonStrings ==
    {KeyRoutingConfig, "'x'", "'next_nodes_map'", "'threshold'", "'id'",
     "'keywords'", "'weight'", "'fallback'", "'tie_breaker_rule'",
     "'specific_over_generic'", "'B'", "'C'", "'a'"}

JNull == [t |-> "null", s |-> "", members |-> <<>>]

JNum(tok) == [t |-> "num", s |-> tok, members |-> <<>>]

JStr(tok) == [t |-> "str", s |-> tok, members |-> <<>>]

\* a decoded JSON object: its members in the order they were written
JObj(members) == [t |-> "obj", s |-> "", members |-> members]

\* a decoded JSON array: its items, each under the key ""
JArr(items) == [t |-> "arr", s |-> "", members |-> items]

\* "routing_config" in memo_content: the only lexeme that holds the word
HasRoutingWord(memo) == \E i \in 1..Len(memo) : memo[i] = KeyRoutingConfig

\* memo_content.find(c), as a 0-based index, -1 when c does not occur
Find(memo, c) ==
    LET at == {i \in 1..Len(memo) : memo[i] = c}
    IN  IF at = {} THEN -1 ELSE (CHOOSE i \in at : \A j \in at : i <= j) - 1

\* memo_content.rfind(c), as a 0-based index, -1 when c does not occur
RFind(memo, c) ==
    LET at == {i \in 1..Len(memo) : memo[i] = c}
    IN  IF at = {} THEN -1 ELSE (CHOOSE i \in at : \A j \in at : j <= i) - 1

\* memo_content[start_idx:end_idx]
Slice(memo, start_idx, end_idx) == SubSeq(memo, start_idx + 1, end_idx)

DecodeError == [ok |-> FALSE, val |-> JNull, next |-> 0]

Decoded(val, next) == [ok |-> TRUE, val |-> val, next |-> next]

\* the JSON decoder on lexemes: the value that starts at position i, the
\* members of an object from the key at position i on, and the items of an
\* array from the item at position i on
RECURSIVE DecodeValue(_, _), DecodeMembers(_, _, _), DecodeItems(_, _, _)
DecodeValue(toks, i) ==
    IF i > Len(toks) THEN DecodeError
    ELSE IF toks[i] = "1" THEN Decoded(JNum(toks[i]), i + 1)
    ELSE IF toks[i] = "null" THEN Decoded(JNull, i + 1)
    ELSE IF toks[i] \in JsonStrings THEN Decoded(JStr(toks[i]), i + 1)
    ELSE IF toks[i] = "{"
    THEN IF i + 1 <= Len(toks) /\ toks[i + 1] = "}"
         THEN Decoded(JObj(<<>>), i + 2)
         ELSE DecodeMembers(toks, i + 1, <<>>)
    ELSE IF toks[i] = "["
    THEN IF i + 1 <= Len(toks) /\ toks[i + 1] = "]"
         THEN Decoded(JArr(<<>>), i + 2)
         ELSE DecodeItems(toks, i + 1, <<>>)
    ELSE DecodeError

DecodeMembers(toks, i, acc) ==
    IF i + 1 > Len(toks) \/ toks[i] \notin JsonStrings \/ toks[i + 1] # ":"
    THEN DecodeError
    ELSE LET r == DecodeValue(toks, i + 2)
             members == Append(acc, [key |-> toks[i], val |-> r.val])
         IN  IF ~r.ok \/ r.next > Len(toks) THEN DecodeError
             ELSE IF toks[r.next] = "}"
             THEN Decoded(JObj(members), r.next + 1)
             ELSE IF toks[r.next] = ","
             THEN DecodeMembers(toks, r.next + 1, members)
             ELSE DecodeError

DecodeItems(toks, i, acc) ==
    LET r == DecodeValue(toks, i)
        items == Append(acc, [key |-> "", val |-> r.val])
    IN  IF ~r.ok \/ r.next > Len(toks) THEN DecodeError
        ELSE IF toks[r.next] = "]" THEN Decoded(JArr(items), r.next + 1)
        ELSE IF toks[r.next] = "," THEN DecodeItems(toks, r.next + 1, items)
        ELSE DecodeError

\* a decoder that stops after the first JSON value and ignores what follows
JsonLoadsPrefix(toks) == DecodeValue(toks, 1)

\* json.loads(json_str): the whole string must be one JSON value
JsonLoads(toks) ==
    LET r == DecodeValue(toks, 1)
    IN  IF r.ok /\ r.next = Len(toks) + 1 THEN r ELSE DecodeError

\* config.get(key) on a decoded object: the last member written with the
\* key, None when there is none
DictGet(config, key) ==
    LET at == {i \in 1..Len(config.members) : config.members[i].key = key}
    IN  IF at = {} THEN JNull
        ELSE config.members[CHOOSE i \in at : \A j \in at : j <= i].val

Returns(val) == [kind |-> "return", val |-> val]

Raises == [kind |-> "raise", val |-> JNull]

FallsThrough == [kind |-> "pass", val |-> JNull]

\* the body of the try statement
TryBody(memo) ==
    IF ~HasRoutingWord(memo) THEN FallsThrough
    ELSE LET start_idx == Find(memo, "{")
             end_idx == RFind(memo, "}") + 1
             config == JsonLoads(Slice(memo, start_idx, end_idx))
         IN  IF start_idx # -1 /\ end_idx > start_idx
             THEN IF config.ok
                  THEN Returns(DictGet(config.val, KeyRoutingConfig))
                  ELSE Raises
             ELSE FallsThrough

\* _parse_routing_config without the try statement around its body
ParseRoutingConfigUnguarded(memo) ==
    IF memo = <<>> THEN Returns(JNull)
    ELSE IF TryBody(memo).kind = "pass" THEN Returns(JNull)
    ELSE TryBody(memo)

\* _parse_routing_config(memo_content)
ParseRoutingConfig(memo) ==
    IF memo = <<>> THEN Returns(JNull)
    ELSE IF TryBody(memo).kind = "return" THEN TryBody(memo)
    ELSE Returns(JNull)              \* except Exception / no return taken

----------------------------------------------------------------------------
(* node_info["routing"] = self._parse_routing_config(memo_content): the     *)
(* decoded value as the routing value the traversal reads with .get         *)

\* key in config
DictHas(config, key) ==
    \E i \in 1..Len(config.members) : config.members[i].key = key

\* bool(value) of a decoded value
Truthy(v) ==
    \/ v.t \in {"num", "str"}
    \/ v.t \in {"obj", "arr"} /\ v.members # <<>>

\* the text of a decoded string; None and numbers, which are no node id and
\* no keyword, give the empty text
TextOf(v) ==
    IF v.t # "str" THEN <<>>
    ELSE IF v.s = "'B'" THEN <<"B">>
    ELSE IF v.s = "'C'" THEN <<"C">>
    ELSE IF v.s = "'a'" THEN <<"a">>
    ELSE IF v.s = "'x'" THEN <<"x">>
    ELSE <<v.s>>

\* config.get(key, default) where a number is expected: a missing key takes
\* the default, a number is itself, anything else fails in the arithmetic
\* like None
NumOf(config, key) ==
    IF ~DictHas(config, key) THEN Missing
    ELSE IF DictGet(config, key).t = "num" THEN Num(1)
    ELSE Null

\* candidate.get("keywords", [])
KeywordsOf(v) == [i \in 1..Len(v.members) |-> TextOf(v.members[i].val)]

\* one item of next_nodes_map
CandOf(v) ==
    IF v.t # "obj" THEN StrCand
    ELSE Cand(TextOf(DictGet(v, "'id'")),
              KeywordsOf(DictGet(v, "'keywords'")),
              NumOf(v, "'weight'"),
              Truthy(DictGet(v, "'fallback'")))

\* routing_config.get("next_nodes_map", [])
MapOf(config) ==
    LET v == DictGet(config, "'next_nodes_map'")
    IN  IF ~Truthy(v) THEN NoList
        ELSE IF v.t = "arr"
        THEN ListOf([i \in 1..Len(v.members) |-> CandOf(v.members[i].val)])
        ELSE IF v.t = "num" THEN NumList
        ELSE ListOf(<<StrCand>>)        \* iterating a str or the keys of a dict

\* routing_config.get("tie_breaker_rule")
TieOf(config) ==
    LET v == DictGet(config, "'tie_breaker_rule'")
    IN  IF v.t = "str" /\ v.s = "'specific_over_generic'"
        THEN "specific_over_generic"
        ELSE IF v.t = "null" THEN "" ELSE "other"

\* what _parse_routing_config returned, as the value of node["routing"]
RoutingOf(v) ==
    IF ~Truthy(v) THEN NoRouting
    ELSE IF v.t # "obj" THEN StrRouting
    ELSE Routing(MapOf(v), NumOf(v, "'threshold'"), TieOf(v))

----------------------------------------------------------------------------
(* The inputs: node lists and user texts *)

IdA == <<"A">>

IdB == <<"B">>

IdC == <<"C">>

\* an id no node carries
IdX == <<"X">>

Ka == <<"a">>

Kab == <<"a", "b">>

\* user texts: "a", "Ab" (no keyword occurs: the test is case-sensitive), "bab"
Texts == {<<"a">>, <<"A", "b">>, <<"b", "a", "b">>}

\* all sequences over S of length at most n
RECURSIVE SeqsUpTo(_, _)
SeqsUpTo(S, n) ==
    IF n = 0 THEN {<<>>}
    ELSE LET shorter == SeqsUpTo(S, n - 1)
         IN  shorter \cup {Append(q, x) : q \in {r \in shorter : Len(r) = n - 1},
                                           x \in S}

Plain(id, start, next_raw) ==
    Node(id, start, FALSE, next_raw, NoRouting, <<>>, <<>>, <<>>)

Terminal(id, start, res, steps, cautions) ==
    Node(id, start, TRUE, <<>>, NoRouting, res, steps, cautions)

\* lists of up to MaxNodes nodes without routing config: start flags anywhere,
\* duplicate ids, cycles, self-loops and dangling ids in next_raw
ListNodeChoices ==
    {Plain(id, st, raw) : id \in {IdA, IdB}, st \in BOOLEAN,
                          raw \in {<<"A">>, <<"X", ",", " ", "B">>}}
    \cup {Terminal(id, st, <<"r">>, <<>>, <<>>) : id \in {IdA, IdB},
                                                   st \in BOOLEAN}
    \cup {Plain(<<>>, TRUE, <<"B">>), Terminal(<<>>, TRUE, <<"r">>, <<>>, <<>>)}

ListFamily == SeqsUpTo(ListNodeChoices, MaxNodes)

\* a start node whose next_raw is to be split and stripped, and its targets
RawChoices ==
    {<<>>, <<"B">>, <<"X", ",", "B">>, <<" ", "C", " ", ",", "B">>,
     <<"X", ",", " ", ",", "C">>, <<",">>, <<"X">>, <<"B", " ", "C">>,
     <<"\t", "C", "\n">>}

RawFamily ==
    {<<Plain(IdA, TRUE, raw), Terminal(IdB, FALSE, <<"r">>, <<>>, <<>>),
       Terminal(IdC, FALSE, <<>>, <<"s">>, <<>>)>> : raw \in RawChoices}

\* one terminal start node with every combination of empty payload fields
PayloadFamily ==
    {<<Terminal(IdA, TRUE, res, steps, cautions)>> :
        res \in {<<>>, <<"r", "1">>}, steps \in {<<>>, <<"s">>},
        cautions \in {<<>>, <<"c">>}}

\* candidates of a routing config: scored ones and fallback-flagged ones
CandChoices ==
    {Cand(id, kws, w, FALSE) : id \in {IdB, IdC}, kws \in {<<Ka>>, <<Kab, Ka>>},
                               w \in {Missing, Num(-2)}}
    \cup {Cand(id, <<Ka>>, Missing, TRUE) : id \in {IdB, IdC, IdX}}
    \cup {Cand(IdB, <<Ka>>, Num(2), FALSE), Cand(IdX, <<Ka>>, Num(2), FALSE),
          Cand(<<>>, <<Ka>>, Num(2), TRUE)}

RoutingChoices ==
    {Routing(ListOf(cands), thr, tie) :
        cands \in SeqsUpTo(CandChoices, MaxCands),
        thr \in {Missing, Num(-2), Num(2)},
        tie \in {"specific_over_generic", "first"}}
    \cup {Routing(NoList, Missing, "")}

\* a start node with a routing config, and its two targets
RoutingFamily ==
    {<<Node(IdA, TRUE, FALSE, raw, r, <<>>, <<>>, <<>>),
       Terminal(IdB, FALSE, <<"r">>, <<>>, <<>>),
       Terminal(IdC, FALSE, <<>>, <<"s">>, <<>>)>> :
        r \in RoutingChoices, raw \in {<<>>, <<"C">>}}

Digits == <<"0", "1", "2", "3", "4", "5", "6", "7", "8", "9">>

ChainId(k) == <<Digits[(k \div 10) + 1], Digits[(k % 10) + 1]>>

\* a chain of ChainLen nodes n1 -> n2 -> ...; node t (if any) is terminal and
\* the last node points at `back`
Chain(t, back) ==
    [k \in 1..ChainLen |->
        Node(ChainId(k), k = 1, k = t,
             IF k < ChainLen THEN ChainId(k + 1) ELSE back,
             NoRouting, IF k = t THEN <<"r">> ELSE <<>>, <<>>, <<>>)]

ChainFamily ==
    {Chain(t, back) : t \in {0, HopLimit, HopLimit + 1},
                      back \in {<<>>, ChainId(1)}}

\* two non-terminal nodes whose routing candidates point at themselves or at
\* each other
LoopRouting(id) ==
    Routing(ListOf(<<Cand(id, <<Ka>>, Missing, FALSE)>>), Missing, "first")

CycleFamily ==
    {<<Node(IdA, TRUE, FALSE, raw, LoopRouting(t1), <<>>, <<>>, <<>>),
       Node(IdB, FALSE, FALSE, <<>>, LoopRouting(t2), <<>>, <<>>, <<>>)>> :
        t1 \in {IdA, IdB}, t2 \in {IdA, IdB}, raw \in {<<>>, <<"A">>}}

\* short lists of nodes whose next_raw points around among them
LoopNodeChoices ==
    {Plain(IdA, TRUE, <<"B">>), Plain(IdB, FALSE, <<"A">>),
     Plain(IdB, TRUE, <<"B">>), Terminal(IdA, FALSE, <<"r">>, <<>>, <<>>)}

LoopFamily == SeqsUpTo(LoopNodeChoices, MaxNodes)

\* the lexemes memo texts are made of
MemoLexemes == {"{", "}", ":", "1", KeyRoutingConfig, "'x'"}

\* every memo of up to MaxMemo lexemes, and longer ones: an object as the
\* value, two members, the key written twice, null, the key one level down,
\* text around the object, two objects
MemoFamily ==
    SeqsUpTo(MemoLexemes, MaxMemo)
    \cup {<<"{", KeyRoutingConfig, ":", "{", "'x'", ":", "1", "}", "}">>,
          <<"{", "'x'", ":", "1", ",", KeyRoutingConfig, ":", "1", "}">>,
          <<"{", KeyRoutingConfig, ":", "1", ",", KeyRoutingConfig, ":",
            "{", "}", "}">>,
          <<"{", KeyRoutingConfig, ":", "null", "}">>,
          <<"{", "'x'", ":", "{", KeyRoutingConfig, ":", "1", "}", "}">>,
          <<"'x'", ":", "{", KeyRoutingConfig, ":", "1", "}", "'x'">>,
          <<"{", KeyRoutingConfig, ":", "1", "}", ",", "{", "}">>,
          <<"{", KeyRoutingConfig, ":", "1", ",", "}">>}

\* a memo with a routing config that sends every text to B
ConfigMemo ==
    <<"{", KeyRoutingConfig, ":", "{", "'next_nodes_map'", ":", "[", "{",
      "'id'", ":", "'B'", ",", "'keywords'", ":", "[", "'a'", "]", "}", "]",
      "}", "}">>

\* a memo with a threshold and a fallback-flagged candidate
ConfigMemoFallback ==
    <<"{", KeyRoutingConfig, ":", "{", "'next_nodes_map'", ":", "[", "{",
      "'id'", ":", "'B'", ",", "'fallback'", ":", "1", ",", "'keywords'",
      ":", "[", "'a'", "]", "}", "]", ",", "'threshold'", ":", "1", "}", "}">>

Without(memo, i) == SubSeq(memo, 1, i - 1) \o SubSeq(memo, i + 1, Len(memo))

\* no memo, the two memos, each of them with any one lexeme lost, and the
\* first with a lexeme too many behind or before it
IngestMemos ==
    {<<>>, ConfigMemo, ConfigMemoFallback}
    \cup {Without(ConfigMemo, i) : i \in 1..Len(ConfigMemo)}
    \cup {Without(ConfigMemoFallback, i) : i \in 1..Len(ConfigMemoFallback)}
    \cup {ConfigMemo \o <<x>> : x \in {"}", ",", "'x'"}}
    \cup {<<x>> \o ConfigMemo : x \in {"{", "'x'"}}

\* the lists whose first node takes its routing from the memo
IngestLists ==
    {<<Plain(IdA, TRUE, raw), Terminal(IdB, FALSE, <<"r">>, <<>>, <<>>),
       Terminal(IdC, FALSE, <<>>, <<"s">>, <<>>)>> : raw \in {<<>>, <<"C">>}}
    \cup {Chain(0, <<>>)}

\* a terminal node that also carries next_raw and a routing config naming
\* a node of the list, as the start node and as the target of the start node
RoutedTerminalFamily ==
    {<<Node(IdA, TRUE, first, <<"B">>, LoopRouting(IdB), <<"r">>, <<>>, <<>>),
       Node(IdB, FALSE, TRUE, raw, r, <<>>, <<"s">>, <<>>),
       Terminal(IdC, FALSE, <<"r">>, <<>>, <<>>)>> :
        first \in BOOLEAN, raw \in {<<>>, <<"C">>},
        r \in {NoRouting, LoopRouting(IdC), LoopRouting(IdA)}}

\* a start node whose next_raw and routing config yield an empty id, beside a
\* record that has no id
EmptyIdFamily ==
    {<<Node(IdA, TRUE, FALSE, raw, r, <<>>, <<>>, <<>>),
       Node(<<>>, FALSE, term, <<>>, NoRouting, <<"r">>, <<>>, <<>>)>> :
        raw \in {<<" ">>, <<"X", ",">>}, r \in {NoRouting, LoopRouting(<<>>)},
        term \in BOOLEAN}

\* the node lists on which the user text decides the route or the payload
NodeLists ==
    {<<>>} \cup RawFamily \cup PayloadFamily \cup RoutingFamily
    \cup CycleFamily \cup ChainFamily \cup RoutedTerminalFamily
    \cup EmptyIdFamily

----------------------------------------------------------------------------
(* run_diagnostic_routing *)

Returned ==
    pc \in {"return_no_data", "return_no_start", "return_terminal",
            "return_fallback"}

TypeOK ==
    /\ pc \in {"ingest", "entry", "loop", "raised", "return_no_data",
               "return_no_start",
               "return_terminal", "return_fallback"}
    /\ current_node \in 0..Len(nodes)
    /\ routed_from \in 0..Len(nodes)
    /\ hop \in 0..HopLimit

\* no second call has been made
Idle ==
    [pc |-> "idle", user_input |-> <<>>, node_index |-> <<>>,
     current_node |-> 0, hop |-> 0, seen_nodes |-> {}, result |-> NoResult]

\* _parse_routing_config has not been called
NotParsed == [kind |-> "not_called", val |-> JNull]

\* only the first call is made
OneCall ==
    /\ other = Idle
    /\ memo_content = <<>>
    /\ parsed = NotParsed

\* the second call and the parser take no step
OneCallKept == UNCHANGED <<other, memo_content, parsed>>

InitWith(lists, texts) ==
    /\ OneCall
    /\ nodes \in lists
    /\ user_input \in texts
    /\ node_index = <<>>
    /\ pc = "entry"
    /\ current_node = 0
    /\ hop = 0
    /\ seen_nodes = {}
    /\ routed_from = 0
    /\ result = NoResult

\* configs of the shape the annotation format describes
Init == InitWith(NodeLists, Texts) \/ InitWith(ListFamily, {<<"a">>})

\* the guard of "for hop in range(20)", letting one more iteration through
InRangeOffByOne(h) == h <= HopLimit

\* the guard of "for hop in range(20)", ending one iteration early
InRangeOneShort(h) == h < HopLimit - 1

\* the guard of "for hop in range(20)"
InRange(h) == h < HopLimit

\* the check "node_id in seen_nodes", never taken
SeenNever(node_id, seen) == FALSE

\* "node_id in seen_nodes"
Seen(node_id, seen) == node_id \in seen

\* the terminal test, made only at a node that has nowhere to route to
IsTerminalIfUnrouted(node) ==
    /\ node.terminal
    /\ node.next_raw = <<>>
    /\ ~RoutingTruthy(node.routing)

\* current_node.get("terminal", False), tested before any routing
IsTerminal(node) == node.terminal

\* "seen_nodes.add(node_id)", adding nothing
MarkSeenNothing(node_id, seen) == seen

\* "seen_nodes.add(node_id)"
MarkSeen(node_id, seen) == seen \cup {node_id}

\* from the call to the first iteration of the loop
Begin ==
    /\ pc = "entry"
    /\ IF nodes = <<>>
       THEN /\ pc' = "return_no_data"
            /\ result' = FallbackResult(user_input)
            /\ UNCHANGED <<node_index, current_node>>
       ELSE /\ node_index' = NodeIndex(nodes)
            /\ IF StartNodes(nodes) = <<>>
               THEN /\ pc' = "return_no_start"
                    /\ result' = FallbackResult(user_input)
                    /\ UNCHANGED current_node
               ELSE /\ pc' = "loop"
                    /\ current_node' = FirstStartNode(nodes)
                    /\ UNCHANGED result
    /\ UNCHANGED <<nodes, user_input, hop, seen_nodes, routed_from>>
    /\ OneCallKept

\* "break", then a return after the loop that leaves the user text out
BreakWithoutText ==
    /\ pc' = "return_fallback"
    /\ result' = FallbackResultNoEcho(user_input)

\* "break", then the return after the loop
BreakToFallback ==
    /\ pc' = "return_fallback"
    /\ result' = FallbackResult(user_input)

\* an iteration that uses up the next_raw of the record it processes
SnapshotConsumed ==
    /\ nodes' = [nodes EXCEPT ![current_node].next_raw = <<>>]
    /\ UNCHANGED node_index

\* an iteration only reads nodes, their records and node_index
SnapshotKept == UNCHANGED <<nodes, node_index>>

\* one iteration of the loop
Iterate ==
    /\ pc = "loop"
    /\ InRange(hop)
    /\ LET node == nodes[current_node]
           node_id == node.node_id
           next_node == ChooseNextNode(user_input, node, node_index)
       IN  IF node_id = <<>> \/ Seen(node_id, seen_nodes)
           THEN /\ BreakToFallback
                /\ UNCHANGED <<current_node, hop, seen_nodes, routed_from>>
           ELSE /\ seen_nodes' = MarkSeen(node_id, seen_nodes)
                /\ IF IsTerminal(node)
                   THEN /\ pc' = "return_terminal"
                        /\ result' = TerminalResult(node)
                        /\ UNCHANGED <<current_node, hop, routed_from>>
                   ELSE /\ routed_from' = current_node
                        /\ IF next_node.kind = "raise"
                           THEN /\ pc' = "raised"
                                /\ UNCHANGED <<current_node, hop, result>>
                           ELSE IF next_node.kind = "none"
                           THEN /\ BreakToFallback
                                /\ UNCHANGED <<current_node, hop>>
                           ELSE /\ current_node' = next_node.idx
                                /\ hop' = hop + 1
                                /\ UNCHANGED <<pc, result>>
    /\ SnapshotKept
    /\ UNCHANGED user_input
    /\ OneCallKept

\* the loop ran all its iterations: the return after the loop
Exhausted ==
    /\ pc = "loop"
    /\ ~InRange(hop)
    /\ BreakToFallback
    /\ UNCHANGED <<nodes, user_input, node_index, current_node, hop,
                   seen_nodes, routed_from>>
    /\ OneCallKept

Next == Begin \/ Iterate \/ Exhausted

Spec == Init /\ [][Next]_vars

\* the loop is sequential code: a call that can take a step takes it
InitFair ==
    InitWith({<<>>} \cup LoopFamily \cup CycleFamily \cup RawFamily
             \cup PayloadFamily \cup ChainFamily, Texts)

FairSpec == InitFair /\ [][Next]_vars /\ WF_vars(Next)

----------------------------------------------------------------------------
(* Node lists whose routing value has a shape the annotation format does   *)
(* not describe: _parse_routing_config returns config.get("routing_config") *)
(* unchecked, whatever JSON value it is.                                    *)

ShapeRoutingChoices ==
    {StrRouting,
     Routing(NumList, Missing, ""),
     Routing(ListOf(<<StrCand>>), Missing, ""),
     Routing(ListOf(<<Cand(IdB, <<Ka>>, Null, FALSE)>>), Missing, ""),
     Routing(ListOf(<<Cand(IdB, <<Ka>>, Num(2), FALSE)>>), Null, ""),
     Routing(ListOf(<<Cand(IdX, <<Ka>>, Null, FALSE)>>), Null, ""),
     Routing(ListOf(<<Cand(IdB, <<Ka>>, Num(2), FALSE)>>), Num(2), "")}

ShapeFamily ==
    {<<Node(IdA, TRUE, FALSE, raw, r, <<>>, <<>>, <<>>),
       Terminal(IdB, FALSE, <<"r">>, <<>>, <<>>)>> :
        r \in ShapeRoutingChoices, raw \in {<<>>, <<"B">>}}

InitShape ==
    InitWith({<<>>} \cup ShapeFamily \cup RawFamily \cup PayloadFamily
             \cup ChainFamily, Texts)

SpecShape == InitShape /\ [][Next]_vars

----------------------------------------------------------------------------
(* A second call of run_diagnostic_routing on the same node list. Its      *)
(* locals are the fields of `other`; one step of it is the same code as    *)
(* Begin, Iterate and Exhausted, written as a function of the locals.      *)

\* the locals at the entry of a call whose visited set is what the first
\* call left behind
NewCallKeepsSeen(text) ==
    [Idle EXCEPT !.pc = "entry", !.user_input = text,
                 !.seen_nodes = seen_nodes]

\* the locals at the entry of a call: nothing is carried into it but its
\* arguments
NewCall(text) == [Idle EXCEPT !.pc = "entry", !.user_input = text]

\* "break", then the return after the loop
FallbackFrame(f) ==
    [f EXCEPT !.pc = "return_fallback",
              !.result = FallbackResult(f.user_input)]

\* one step of a call with locals f on the node list ns
CallStep(f, ns) ==
    IF f.pc = "entry"
    THEN IF ns = <<>>
         THEN [f EXCEPT !.pc = "return_no_data",
                        !.result = FallbackResult(f.user_input)]
         ELSE IF StartNodes(ns) = <<>>
         THEN [f EXCEPT !.node_index = NodeIndex(ns),
                        !.pc = "return_no_start",
                        !.result = FallbackResult(f.user_input)]
         ELSE [f EXCEPT !.node_index = NodeIndex(ns), !.pc = "loop",
                        !.current_node = FirstStartNode(ns)]
    ELSE IF f.pc # "loop" THEN f
    ELSE IF ~InRange(f.hop) THEN FallbackFrame(f)
    ELSE LET node == ns[f.current_node]
             node_id == node.node_id
             next_node == ChooseNextNode(f.user_input, node, f.node_index)
             g == [f EXCEPT !.seen_nodes = MarkSeen(node_id, f.seen_nodes)]
         IN  IF node_id = <<>> \/ Seen(node_id, f.seen_nodes)
             THEN FallbackFrame(f)
             ELSE IF IsTerminal(node)
             THEN [g EXCEPT !.pc = "return_terminal",
                            !.result = TerminalResult(node)]
             ELSE IF next_node.kind = "raise" THEN [g EXCEPT !.pc = "raised"]
             ELSE IF next_node.kind = "none" THEN FallbackFrame(g)
             ELSE [g EXCEPT !.current_node = next_node.idx,
                            !.hop = f.hop + 1]

\* a call run from locals f to its end, with nothing else running
RECURSIVE RunFrom(_, _)
RunFrom(f, ns) ==
    IF f.pc \notin {"entry", "loop"} THEN f ELSE RunFrom(CallStep(f, ns), ns)

\* the call run_diagnostic_routing(text, {"nodes": ns}) run alone
RunAlone(text, ns) == RunFrom(NewCall(text), ns)

\* the locals of the first call, as a record
Locals ==
    [pc |-> pc, user_input |-> user_input, node_index |-> node_index,
     current_node |-> current_node, hop |-> hop, seen_nodes |-> seen_nodes,
     result |-> result]

\* what a step of the second call reads, were the visited set one set
\* shared by the calls
OtherViewSharedSeen ==
    [other EXCEPT !.seen_nodes = other.seen_nodes \cup seen_nodes]

\* what a step of the second call reads: its own locals
OtherView == other

\* the first call takes no step
FirstCallKept ==
    UNCHANGED <<nodes, user_input, node_index, pc, current_node, hop,
                seen_nodes, routed_from, result, memo_content, parsed>>

\* a second call is made, with any user text, while the first is anywhere
OtherCall ==
    /\ other.pc = "idle"
    /\ \E text \in Texts : other' = NewCall(text)
    /\ FirstCallKept

\* the same call is made again after the first has ended
CallAgain ==
    /\ pc \notin {"entry", "loop"}
    /\ other.pc = "idle"
    /\ other' = NewCall(user_input)
    /\ FirstCallKept

\* one step of the second call
OtherStep ==
    /\ other.pc \in {"entry", "loop"}
    /\ other' = CallStep(OtherView, nodes)
    /\ FirstCallKept

\* node lists for two calls: lists with cycles, routing configs, payloads
\* and long chains
TwoCallLists ==
    {<<>>} \cup LoopFamily \cup CycleFamily \cup RawFamily \cup PayloadFamily
    \cup {Chain(0, <<>>), Chain(HopLimit, <<>>)}

InitTwoCalls == InitWith(TwoCallLists, Texts)

\* the same call twice, one after the other
NextTwice == Begin \/ Iterate \/ Exhausted \/ CallAgain \/ OtherStep

\* for the repeated call, the lists with full routing configs as well
InitTwice == InitTwoCalls \/ InitWith(RoutingFamily, {<<"a">>})

SpecTwice == InitTwice /\ [][NextTwice]_vars

\* two calls, their steps interleaved in any order
NextConcurrent == Begin \/ Iterate \/ Exhausted \/ OtherCall \/ OtherStep

SpecConcurrent == InitTwoCalls /\ [][NextConcurrent]_vars

----------------------------------------------------------------------------
(* _parse_routing_config applied to a memo text *)

InitParse ==
    /\ memo_content \in MemoFamily
    /\ parsed = NotParsed
    /\ other = Idle
    /\ nodes = <<>>
    /\ user_input = <<>>
    /\ node_index = <<>>
    /\ pc = "entry"
    /\ current_node = 0
    /\ hop = 0
    /\ seen_nodes = {}
    /\ routed_from = 0
    /\ result = NoResult

\* the call _parse_routing_config(memo_content), from entry to exit
ParseMemo ==
    /\ parsed = NotParsed
    /\ parsed' = ParseRoutingConfig(memo_content)
    /\ UNCHANGED <<nodes, user_input, node_index, pc, current_node, hop,
                   seen_nodes, routed_from, result, other, memo_content>>

SpecParse == InitParse /\ [][ParseMemo]_vars

----------------------------------------------------------------------------
(* A node list whose first record is ingested with a memo, then the call *)

InitIngest ==
    /\ memo_content \in IngestMemos
    /\ parsed = NotParsed
    /\ other = Idle
    /\ nodes \in IngestLists
    /\ user_input \in Texts
    /\ node_index = <<>>
    /\ pc = "ingest"
    /\ current_node = 0
    /\ hop = 0
    /\ seen_nodes = {}
    /\ routed_from = 0
    /\ result = NoResult

\* node_info["routing"] = self._parse_routing_config(memo_content)
Ingest ==
    /\ pc = "ingest"
    /\ parsed' = ParseRoutingConfig(memo_content)
    /\ nodes' = [nodes EXCEPT
                    ![1].routing = RoutingOf(ParseRoutingConfig(memo_content).val)]
    /\ pc' = "entry"
    /\ UNCHANGED <<user_input, node_index, current_node, hop, seen_nodes,
                   routed_from, result, other, memo_content>>

NextIngest == Ingest \/ Begin \/ Iterate \/ Exhausted

SpecIngest == InitIngest /\ [][NextIngest]_vars

----------------------------------------------------------------------------
(* What the claims speak of, stated apart from the code's own computation *)

HasPrefix(s, p) == Len(s) >= Len(p) /\ SubSeq(s, 1, Len(p)) = p

\* the flags a caller can branch on: every key of the result but its text
Flags(r) == DOMAIN r \ {"text"}

NoStartFlag == \A i \in 1..Len(nodes) : ~nodes[i].start

\* the node whose successor was last chosen, once one was
Router == nodes[routed_from]

\* Router carries a routing config that is an object with a candidate list
HasCandidates ==
    /\ routed_from # 0
    /\ Router.routing.t = "obj"
    /\ Router.routing.next_nodes_map.t = "list"
    /\ Router.routing.next_nodes_map.v # <<>>

Candidates == Router.routing.next_nodes_map.v

Threshold ==
    IF Router.routing.threshold.t = "num" THEN Router.routing.threshold.v ELSE 0

\* (number of keywords of candidate k occurring in the user text) x weight
ScoreOf(k) ==
    Cardinality({i \in 1..Len(Candidates[k].keywords) :
                    IsSubstring(Candidates[k].keywords[i], user_input)})
    * (IF Candidates[k].weight.t = "num" THEN Candidates[k].weight.v ELSE 1)

Resolves(id) == id \in DOMAIN node_index

\* the candidates that resolve and reach the threshold
Eligible ==
    {k \in 1..Len(Candidates) :
        Resolves(Candidates[k].id) /\ ScoreOf(k) >= Threshold}

\* the eligible candidates of highest score
Top == {k \in Eligible : \A j \in Eligible : ScoreOf(j) <= ScoreOf(k)}

\* the traversal moved from Router to the target of candidate k
MovedTo(k) ==
    /\ pc \in {"loop", "return_terminal", "return_fallback"}
    /\ Resolves(Candidates[k].id)
    /\ current_node = node_index[Candidates[k].id]
    /\ hop > 0

----------------------------------------------------------------------------
(* C1 *)

\* C1: every call eventually returns a result, whatever cycles or self-loops
\* next_raw and the candidates form, and no more than hopLimit = 20 nodes are
\* processed on the way.
C1_Terminates ==
    /\ <>Returned
    /\ [](hop <= HopLimit /\ Cardinality(seen_nodes) <= HopLimit)

\* a run over more than 20 distinct non-terminal nodes, cut at the hop limit
C1_Witness ==
    /\ pc = "return_fallback"
    /\ hop = HopLimit
    /\ Cardinality(seen_nodes) = HopLimit
    /\ Len(nodes) > HopLimit

----------------------------------------------------------------------------
(* C2 *)

\* C2: the call never ends in an exception, also when the routing value, a
\* candidate, a weight or a threshold has the wrong shape.
C2_NeverRaises == pc # "raised"

----------------------------------------------------------------------------
(* C3 *)

----------------------------------------------------------------------------
(* C4 *)

\* C4: the traversal begins at the first node, in input order, whose start
\* flag is set, whatever precedes or follows it.
C4_FirstStartFlagged ==
    (pc = "loop" /\ hop = 0) =>
        /\ nodes[current_node].start
        /\ \A j \in 1..(current_node - 1) : ~nodes[j].start

\* [A(start=false), B(start=true), C(start=true)]: begun at the second node
C4_Witness ==
    /\ pc = "loop"
    /\ hop = 0
    /\ Len(nodes) >= 3
    /\ ~nodes[1].start
    /\ nodes[2].start
    /\ nodes[3].start
    /\ current_node = 2

----------------------------------------------------------------------------
(* C5 *)

----------------------------------------------------------------------------
(* C6 *)

\* C6: whenever some resolving candidate has score >= threshold, the next
\* node is the target of a candidate of highest score among those, and never
\* one of score < threshold, for all weights and thresholds, negative ones
\* included.
C6_MaxScoreChosen ==
    (HasCandidates /\ Eligible # {}) => \E k \in Top : MovedTo(k)

----------------------------------------------------------------------------
(* C7 *)

\* the candidates of highest score with the most keywords among them
MostSpecific ==
    {k \in Top : \A j \in Top :
        Len(Candidates[j].keywords) <= Len(Candidates[k].keywords)}

\* C7: under specific_over_generic, when several eligible candidates share
\* the highest score, the next node is the target of the one with the most
\* keywords, wherever it stands in the list.
C7_SpecificOverGeneric ==
    (/\ HasCandidates
     /\ Router.routing.tie_breaker_rule = "specific_over_generic"
     /\ Cardinality(Top) >= 2)
        => \E k \in MostSpecific : MovedTo(k)

----------------------------------------------------------------------------
(* C8 *)

\* no candidate at all, resolving or not, reaches the threshold
NoneReachesThreshold ==
    \A k \in 1..Len(Candidates) : ScoreOf(k) < Threshold

\* the fallback-flagged candidates whose target is in the registry
ResolvingFallbacks ==
    {k \in 1..Len(Candidates) :
        Candidates[k].fallback /\ Resolves(Candidates[k].id)}

\* C8: when no candidate reaches the threshold, the next node is the target
\* of the first candidate, in declared order, that is flagged fallback and
\* resolves; flagged candidates that do not resolve are passed over.
C8_FallbackCandidate ==
    (HasCandidates /\ NoneReachesThreshold /\ ResolvingFallbacks # {}) =>
        \E k \in ResolvingFallbacks :
            /\ \A j \in ResolvingFallbacks : k <= j
            /\ MovedTo(k)

\* a flagged candidate with a dangling target stands before the one taken
C8_Witness ==
    /\ HasCandidates
    /\ NoneReachesThreshold
    /\ Len(Candidates) >= 2
    /\ Candidates[1].fallback
    /\ ~Resolves(Candidates[1].id)
    /\ Candidates[2].fallback
    /\ MovedTo(2)

----------------------------------------------------------------------------
(* C9 *)

\* the ids of Router's next_raw, in list order
FallbackNextIds == NextIds(Router.next_raw)

ResolvingNextIds ==
    {k \in 1..Len(FallbackNextIds) : Resolves(FallbackNextIds[k])}

\* C9: for a non-terminal node without routing config, the next node is the
\* record of the first id of next_raw that resolves; ids before it that do
\* not resolve are skipped and do not end the traversal.
C9_FirstResolvingNextId ==
    (/\ routed_from # 0
     /\ Router.routing.t = "null"
     /\ Router.next_raw # <<>>
     /\ ResolvingNextIds # {})
        => \E k \in ResolvingNextIds :
              /\ \A j \in ResolvingNextIds : k <= j
              /\ pc \in {"loop", "return_terminal", "return_fallback"}
              /\ hop > 0
              /\ current_node = node_index[FallbackNextIds[k]]

\* the first two ids of next_raw do not resolve, the third does and is taken
C9_Witness ==
    /\ routed_from # 0
    /\ Router.routing.t = "null"
    /\ Router.next_raw # <<>>
    /\ Len(FallbackNextIds) >= 3
    /\ ~Resolves(FallbackNextIds[1])
    /\ ~Resolves(FallbackNextIds[2])
    /\ Resolves(FallbackNextIds[3])
    /\ current_node = node_index[FallbackNextIds[3]]
    /\ current_node # routed_from

----------------------------------------------------------------------------
(* C10 *)

BlankLine == <<"\n", "\n">>

\* a payload field under its label, or nothing when the field is empty
Section(label, field) == IF field = <<>> THEN <<>> ELSE label \o field

\* two texts with one blank line between them; an empty one adds nothing
Glue(x, y) ==
    IF x = <<>> THEN y ELSE IF y = <<>> THEN x ELSE x \o BlankLine \o y

\* result, steps, cautions of node n: the non-empty ones, labelled, in order
Assembled(n) ==
    Glue(Glue(Section(ResultLabel, n.result), Section(StepsLabel, n.steps)),
         Section(CautionsLabel, n.cautions))

AllEmpty(n) == n.result = <<>> /\ n.steps = <<>> /\ n.cautions = <<>>

\* C10 as claimed: at a terminal node the text is the labelled non-empty
\* payload fields in the order result, steps, cautions, one blank line
\* between them, and nothing else.
C10_TextIsAssembled ==
    pc = "return_terminal" => result.text = Assembled(nodes[current_node])

\* C10 as amended: the same whenever at least one payload field is not
\* empty; when all three are empty the text is the fixed message "診断完了"
\* (diagnosis complete), not the empty concatenation.
C10_TextIsAssembledOrDone ==
    pc = "return_terminal" =>
        result.text = IF AllEmpty(nodes[current_node])
                      THEN DoneText
                      ELSE Assembled(nodes[current_node])

\* result and steps present, cautions empty: R and S with a blank line
C10_Witness ==
    /\ pc = "return_terminal"
    /\ nodes[current_node].result # <<>>
    /\ nodes[current_node].steps # <<>>
    /\ nodes[current_node].cautions = <<>>
    /\ result.text = ResultLabel \o nodes[current_node].result \o BlankLine
                     \o StepsLabel \o nodes[current_node].steps

----------------------------------------------------------------------------
(* C11 *)

\* C11: no node id is processed twice in one traversal: while the loop runs,
\* the visited set holds exactly one id per completed hop; and when the node
\* chosen next (the node itself included) has an id that is already in the
\* visited set, the very next step stops the traversal with the Fallback
\* result and processes nothing.
C11_NoRevisit ==
    /\ [](pc = "loop" => Cardinality(seen_nodes) = hop)
    /\ [][(pc = "loop" /\ nodes[current_node].node_id \in seen_nodes)
            => /\ pc' = "return_fallback"
               /\ result'.text = FallbackPrefix \o user_input
               /\ seen_nodes' = seen_nodes
               /\ hop' = hop]_vars

\* a traversal stopped before the hop limit at a node whose id it had
\* already visited
C11_Witness ==
    /\ pc = "return_fallback"
    /\ hop \in 1..(HopLimit - 1)
    /\ nodes[current_node].node_id \in seen_nodes
    /\ Cardinality(seen_nodes) = hop

----------------------------------------------------------------------------
(* C12 *)

\* the node list is an acyclic chain: no routing configs, distinct ids, the
\* first node is the only start node, every node names exactly the next one
\* and the last node names nothing
AcyclicChain ==
    /\ nodes # <<>>
    /\ \A k \in 1..Len(nodes) :
        /\ nodes[k].routing = NoRouting
        /\ nodes[k].node_id # <<>>
        /\ nodes[k].start = (k = 1)
        /\ \A j \in 1..Len(nodes) :
            nodes[j].node_id = nodes[k].node_id => j = k
        /\ IF k < Len(nodes)
           THEN NextIds(nodes[k].next_raw) = <<nodes[k + 1].node_id>>
           ELSE nodes[k].next_raw = <<>>

\* position of the first terminal node of the list, 0 if there is none
FirstTerminal ==
    LET ts == {k \in 1..Len(nodes) : nodes[k].terminal}
    IN  IF ts = {} THEN 0 ELSE CHOOSE k \in ts : \A j \in ts : k <= j

\* C12: in every state the visited set holds at most 20 ids and the hop
\* counter is at most 20; on an acyclic chain the call is Diagnosed at the
\* first terminal node when that node is among the first 20 of the chain
\* (the 20th included), and is a Fallback when the first 20 nodes are all
\* non-terminal, even if the 21st is terminal.
C12_TwentyNodes ==
    /\ Cardinality(seen_nodes) <= HopLimit
    /\ hop <= HopLimit
    /\ (AcyclicChain /\ Returned) =>
          IF FirstTerminal \in 1..HopLimit
          THEN /\ pc = "return_terminal"
               /\ current_node = FirstTerminal
               /\ ~HasPrefix(result.text, FallbackPrefix)
          ELSE /\ pc = "return_fallback"
               /\ HasPrefix(result.text, FallbackPrefix)

\* Diagnosed at the 20th node of a chain
C12_Witness ==
    /\ AcyclicChain
    /\ pc = "return_terminal"
    /\ FirstTerminal = HopLimit
    /\ Cardinality(seen_nodes) = HopLimit

\* Fallback on a chain whose 21st node is the first terminal one
C12_WitnessBeyond ==
    /\ AcyclicChain
    /\ pc = "return_fallback"
    /\ FirstTerminal = HopLimit + 1

----------------------------------------------------------------------------
(* C13 *)

\* C13: whatever made the call fall back (no node data, no start node, a
\* node without id, a cycle, a dead end, the hop limit), the result is the
\* same function of the user text alone: the fixed fallback prefix followed
\* by the user text unchanged, with nothing else in it that could tell the
\* causes apart.
C13_OneFallbackResult ==
    pc \in {"return_no_data", "return_no_start", "return_fallback"} =>
        result = [text |-> FallbackPrefix \o user_input, end |-> TRUE]

\* a fallback caused by the hop limit
C13_Witness ==
    /\ pc = "return_fallback"
    /\ hop = HopLimit
    /\ result.text = FallbackPrefix \o user_input

\* a fallback caused by a dead end: the node routed from names no node
C13_WitnessDeadEnd ==
    /\ pc = "return_fallback"
    /\ routed_from = current_node
    /\ Cardinality(seen_nodes) = hop + 1
    /\ result.text = FallbackPrefix \o user_input

----------------------------------------------------------------------------
(* C14 *)

OtherReturned ==
    other.pc \in {"return_no_data", "return_no_start", "return_terminal",
                  "return_fallback"}

----------------------------------------------------------------------------
(* C15 *)

\* positions of the first "{" and of the last "}" of the memo, 0 if none
FirstOpen ==
    LET at == {i \in 1..Len(memo_content) : memo_content[i] = "{"}
    IN  IF at = {} THEN 0 ELSE CHOOSE i \in at : \A j \in at : i <= j

LastClose ==
    LET at == {i \in 1..Len(memo_content) : memo_content[i] = "}"}
    IN  IF at = {} THEN 0 ELSE CHOOSE i \in at : \A j \in at : j <= i

\* the span from the first "{" to the last "}", when the one comes after
\* the other
HasSpan == FirstOpen # 0 /\ LastClose > FirstOpen

Span == SubSeq(memo_content, FirstOpen, LastClose)

SpanDecodes == JsonLoads(Span).ok

\* the decoded object has a member named routing_config
SpanHasKey ==
    \E i \in 1..Len(JsonLoads(Span).val.members) :
        JsonLoads(Span).val.members[i].key = KeyRoutingConfig

\* C15: _parse_routing_config never raises: for every memo text it returns,
\* and what it returns is absent (None) when the text is empty, when it has
\* no "{" or no "}" after the first "{", when the span from the first "{" to
\* the last "}" does not decode as JSON, and when the decoded object has no
\* routing_config key.
C15_ParseNeverRaises ==
    parsed # NotParsed =>
        /\ parsed.kind = "return"
        /\ (\/ memo_content = <<>>
            \/ ~HasSpan
            \/ ~SpanDecodes
            \/ ~SpanHasKey) => parsed.val.t = "null"

\* the memo names routing_config and has a span that does not decode: the
\* decoder's exception was caught and absent returned
C15_Witness ==
    /\ parsed.kind = "return"
    /\ parsed.val.t = "null"
    /\ HasRoutingWord(memo_content)
    /\ HasSpan
    /\ ~SpanDecodes

\* the memo holds an object with the key: its value is returned
C15_WitnessConfig ==
    /\ parsed.kind = "return"
    /\ parsed.val.t = "obj"
    /\ HasSpan
    /\ SpanDecodes
    /\ SpanHasKey

----------------------------------------------------------------------------
(* C16 *)

\* C16: when several records of the node list share an id, the registry
\* maps that id to the last of them in input order, and every transition
\* into that id lands on that last record.
C16_LastRecordWins ==
    /\ pc \notin {"entry", "return_no_data"} =>
          \A id \in DOMAIN node_index :
              /\ nodes[node_index[id]].node_id = id
              /\ \A j \in (node_index[id] + 1)..Len(nodes) :
                     nodes[j].node_id # id
    /\ hop > 0 =>
          \A j \in (current_node + 1)..Len(nodes) :
              nodes[j].node_id # nodes[current_node].node_id

\* a transition landed on a record that has an earlier record of the same id
C16_Witness ==
    /\ hop > 0
    /\ \E j \in 1..(current_node - 1) :
           nodes[j].node_id = nodes[current_node].node_id

----------------------------------------------------------------------------
(* C17 *)

----------------------------------------------------------------------------
(* C18 *)

\* C18: a call leaves its inputs as they were: no step changes the node list
\* or any field of a node record (flags, payload, next_raw, routing config)
\* or the user text, and the registry, once built, is never written again
\* and stays the registry of the unchanged list.
C18_InputsUnchanged ==
    /\ [][/\ nodes' = nodes
          /\ user_input' = user_input
          /\ pc # "entry" => node_index' = node_index]_vars
    /\ [](pc \notin {"entry", "return_no_data"}
              => node_index = NodeIndex(nodes))

\* a call that went through a routing config and next_raw and has returned
C18_Witness ==
    /\ Returned
    /\ hop >= 1
    /\ routed_from # 0
    /\ Router.routing # NoRouting
    /\ Router.next_raw # <<>>
    /\ node_index = NodeIndex(nodes)

----------------------------------------------------------------------------
(* C19 *)

\* C19: of two calls on the same node list whose steps interleave in any
\* order, each is at every moment where it would be had it run alone up to
\* there: its visited set, hop counter and position are those of the lone
\* call (no step of the other call has touched them) and it returns the
\* result the lone call returns.
C19_AsIfAlone ==
    /\ RunFrom(Locals, nodes) = RunAlone(user_input, nodes)
    /\ other.pc # "idle" =>
           RunFrom(other, nodes) = RunAlone(other.user_input, nodes)

\* both calls are in the middle of their loops on a list with a cycle, with
\* different user texts
C19_Witness ==
    /\ pc = "loop"
    /\ other.pc = "loop"
    /\ hop = 1
    /\ other.hop = 1
    /\ seen_nodes # {}
    /\ other.user_input # user_input
    /\ nodes[current_node].node_id \in other.seen_nodes

----------------------------------------------------------------------------
(* C20 *)

\* the candidates, resolving or not, whose score reaches the threshold
AboveThreshold == {k \in 1..Len(Candidates) : ScoreOf(k) >= Threshold}

\* those of them with the highest score
TopScorers ==
    {k \in AboveThreshold : \A j \in AboveThreshold : ScoreOf(j) <= ScoreOf(k)}

\* the highest-scoring candidate reaching the threshold does not resolve,
\* whichever of the top scorers is meant
TopUnresolved ==
    /\ HasCandidates
    /\ TopScorers # {}
    /\ \A k \in TopScorers : ~Resolves(Candidates[k].id)

\* the traversal ended with the Fallback result at Router
StoppedAtRouter ==
    /\ pc = "return_fallback"
    /\ current_node = routed_from
    /\ Cardinality(seen_nodes) = hop + 1

\* the registry positions Router's candidates and next_raw can lead to
RouterTargets ==
    {node_index[Candidates[k].id] :
        k \in {j \in 1..Len(Candidates) : Resolves(Candidates[j].id)}}
    \cup {node_index[FallbackNextIds[k]] : k \in ResolvingNextIds}

\* the traversal went on from Router to one of its registered targets
MovedOn ==
    /\ pc \in {"loop", "return_terminal", "return_fallback"}
    /\ hop > 0
    /\ current_node \in RouterTargets
    /\ ~StoppedAtRouter

C20_WitnessStopped ==
    /\ TopUnresolved
    /\ StoppedAtRouter

----------------------------------------------------------------------------
(* C21 *)

\* the eligible candidates that remain tied: those of highest score, and
\* under specific_over_generic those of them with the most keywords
StillTied ==
    IF Router.routing.tie_breaker_rule = "specific_over_generic"
    THEN MostSpecific ELSE Top

\* C21: among the eligible candidates that remain tied (equal highest score,
\* and equal keyword count under specific_over_generic) the next node is the
\* target of the one declared earliest in the candidate list.
C21_EarliestOfTied ==
    (HasCandidates /\ StillTied # {}) =>
        \E k \in StillTied :
            /\ \A j \in StillTied : k <= j
            /\ MovedTo(k)

\* C21 where the bug of C6 has no part: the shared highest score is not
\* below 0
C21_EarliestOfTiedFromZero ==
    (HasCandidates /\ StillTied # {} /\ \A k \in Top : ScoreOf(k) >= 0) =>
        \E k \in StillTied :
            /\ \A j \in StillTied : k <= j
            /\ MovedTo(k)

\* two tied candidates with different targets, the earlier one taken
C21_TieSeen ==
    /\ HasCandidates
    /\ Cardinality(StillTied) >= 2
    /\ Candidates[1].id # Candidates[2].id
    /\ StillTied = {1, 2}
    /\ MovedTo(1)

----------------------------------------------------------------------------
(* C22 *)

\* the routing rule yields a candidate: one that resolves and reaches the
\* threshold, or one that is flagged fallback and resolves
RuleYields == HasCandidates /\ (Eligible # {} \/ ResolvingFallbacks # {})

\* the traversal moved from Router to the first id of next_raw that resolves
MovedByNextRaw ==
    /\ ResolvingNextIds # {}
    /\ \E k \in ResolvingNextIds :
          /\ \A j \in ResolvingNextIds : k <= j
          /\ pc \in {"loop", "return_terminal", "return_fallback"}
          /\ hop > 0
          /\ current_node = node_index[FallbackNextIds[k]]

\* the next node is the target of the candidate the rule yields
MovedByRule ==
    IF Eligible # {}
    THEN \E k \in Top : MovedTo(k)
    ELSE \E k \in ResolvingFallbacks :
            /\ \A j \in ResolvingFallbacks : k <= j
            /\ MovedTo(k)

\* next_raw is what decides: its first resolving id, or a stop
DecidedByNextRaw ==
    IF ResolvingNextIds # {} THEN MovedByNextRaw ELSE StoppedAtRouter

\* C22: next_raw is consulted exactly when the routing rule chose nothing:
\* when the config yields a candidate (by score or by the fallback flag) the
\* next node is that candidate's target, whatever next_raw holds; when the
\* node has no config, no candidates, or the rule yields none, the next node
\* comes from next_raw.
C22_NextRawOnlyAfterRule ==
    routed_from # 0 =>
        IF RuleYields THEN MovedByRule ELSE DecidedByNextRaw

\* C22 where the bug of C6 has no part: no eligible candidate has its
\* highest score below 0
C22_NextRawOnlyAfterRuleFromZero ==
    (routed_from # 0 /\ (HasCandidates => \A k \in Top : ScoreOf(k) >= 0)) =>
        IF RuleYields THEN MovedByRule ELSE DecidedByNextRaw

\* the rule yields B while next_raw names C: the traversal is at B
C22_RuleWinsSeen ==
    /\ RuleYields
    /\ ResolvingNextIds # {}
    /\ MovedByRule
    /\ ~MovedByNextRaw

\* candidates are there but the rule yields none: next_raw decides
C22_NextRawSeen ==
    /\ HasCandidates
    /\ ~RuleYields
    /\ MovedByNextRaw

----------------------------------------------------------------------------
(* C23 *)

\* C23: at a non-terminal node where the routing config yields no candidate
\* that resolves and no id of next_raw resolves, the traversal stops at that
\* node and the result is the Fallback result.
C23_DeadEndStops ==
    (routed_from # 0 /\ ~RuleYields /\ ResolvingNextIds = {}) =>
        /\ StoppedAtRouter
        /\ result = [text |-> FallbackPrefix \o user_input, end |-> TRUE]

\* a node with ids in next_raw, none of which resolves
C23_Witness ==
    /\ routed_from # 0
    /\ ~RuleYields
    /\ Router.next_raw # <<>>
    /\ Len(FallbackNextIds) >= 1
    /\ ResolvingNextIds = {}
    /\ StoppedAtRouter

\* a node whose only candidates are dangling or below the threshold, with
\* an empty next_raw
C23_WitnessCandidates ==
    /\ HasCandidates
    /\ ~RuleYields
    /\ Router.next_raw = <<>>
    /\ StoppedAtRouter

----------------------------------------------------------------------------
(* C24 *)

\* the memo holds a fragment that is no JSON: it has text, and either no
\* span from a first "{" to a later last "}" or a span that is not exactly
\* one JSON value
Malformed ==
    /\ memo_content # <<>>
    /\ \/ ~HasSpan
       \/ LET r == DecodeValue(Span, 1)
          IN  ~(r.ok /\ r.next = Len(Span) + 1)

\* the same node list with no routing config on its first record
NoConfigList == [nodes EXCEPT ![1].routing = NoRouting]

\* C24: a record ingested with a malformed routing fragment is the record
\* with no routing config, and the call on its list goes, from every state
\* on, where the call on the list without the config goes, to the same
\* result, for every user text and both with and without next_raw.
C24_MalformedIsAbsent ==
    (pc # "ingest" /\ Malformed) =>
        /\ nodes = NoConfigList
        /\ RunFrom(Locals, nodes) = RunAlone(user_input, NoConfigList)

\* the fragment names B but has lost a lexeme: the call went to C by
\* next_raw and was Diagnosed there
C24_Witness ==
    /\ Malformed
    /\ HasSpan
    /\ \E i \in 1..Len(memo_content) : memo_content[i] = "'B'"
    /\ pc = "return_terminal"
    /\ nodes[current_node].node_id = IdC

\* the whole fragment is there: the call went to B
C24_WellFormedSeen ==
    /\ ~Malformed
    /\ memo_content # <<>>
    /\ nodes[1].routing # NoRouting
    /\ pc = "return_terminal"
    /\ nodes[current_node].node_id = IdB
    /\ Router.next_raw = <<"C">>

----------------------------------------------------------------------------
(* C25 *)

\* Router with the candidates whose id is not in the registry taken out of
\* its candidate list
PrunedRouter ==
    [Router EXCEPT !.routing.next_nodes_map.v =
        SelectSeq(@, LAMBDA c : c.id \in DOMAIN node_index)]

\* the choice made at Router had those candidates never been declared
PrunedChoice == ChooseNextNode(user_input, PrunedRouter, node_index)

\* C25: every node the traversal moves to is the registry's record of its
\* id, and candidates whose id is missing or does not resolve have no part
\* in the choice: the traversal goes where it would go had they not been
\* declared, and stops where it would stop.
C25_OnlyRegistryRecords ==
    /\ hop > 0 =>
          /\ Resolves(nodes[current_node].node_id)
          /\ node_index[nodes[current_node].node_id] = current_node
    /\ routed_from # 0 =>
          IF PrunedChoice.kind = "node"
          THEN /\ hop > 0
               /\ ~StoppedAtRouter
               /\ current_node = PrunedChoice.idx
          ELSE StoppedAtRouter

\* the dangling candidate has the higher score; the traversal is at the
\* target of the other one
C25_Witness ==
    /\ HasCandidates
    /\ Len(Candidates) = 2
    /\ ~Resolves(Candidates[1].id)
    /\ ScoreOf(1) >= Threshold
    /\ ScoreOf(1) > ScoreOf(2)
    /\ ~Candidates[2].fallback
    /\ MovedTo(2)

----------------------------------------------------------------------------
(* C26 *)

\* no keyword of any candidate occurs in the user text
NoKeywordOccurs ==
    \A k \in 1..Len(Candidates) :
        \A i \in 1..Len(Candidates[k].keywords) :
            ~IsSubstring(Candidates[k].keywords[i], user_input)

\* the config has no threshold and no resolving candidate a negative weight
DefaultsAndNoNegativeWeight ==
    /\ HasCandidates
    /\ Router.routing.threshold.t = "missing"
    /\ \E k \in 1..Len(Candidates) : Resolves(Candidates[k].id)
    /\ \A k \in 1..Len(Candidates) :
           Resolves(Candidates[k].id) =>
               \/ Candidates[k].weight.t = "missing"
               \/ Candidates[k].weight.t = "num" /\ Candidates[k].weight.v >= 0

\* C26: a config without threshold uses threshold 0 and a candidate without
\* weight uses weight 1; so with the default threshold and no negative
\* weight the next node is the target of a resolving candidate of highest
\* score (counted with threshold 0 and weight 1 where they are missing), even
\* when no keyword occurs in the user text: the fallback-flagged rule and
\* next_raw are not reached.
C26_DefaultsChooseByScore ==
    DefaultsAndNoNegativeWeight =>
        \E k \in Top : MovedTo(k)

\* no keyword occurs; the first candidate is taken although the second is
\* flagged fallback and next_raw names a node
C26_Witness ==
    /\ DefaultsAndNoNegativeWeight
    /\ NoKeywordOccurs
    /\ Len(Candidates) = 2
    /\ ~Candidates[1].fallback
    /\ Candidates[2].fallback
    /\ Resolves(Candidates[2].id)
    /\ Candidates[1].id # Candidates[2].id
    /\ ResolvingNextIds # {}
    /\ node_index[FallbackNextIds[1]] # node_index[Candidates[1].id]
    /\ MovedTo(1)

----------------------------------------------------------------------------
(* C27 *)

\* the node has somewhere to route to: an id of next_raw that resolves, or
\* a candidate that resolves
HasResolvingRoute(n) ==
    \/ \E k \in 1..Len(NextIds(n.next_raw)) : Resolves(NextIds(n.next_raw)[k])
    \/ /\ n.routing.t = "obj"
       /\ \E k \in 1..Len(n.routing.next_nodes_map.v) :
              Resolves(n.routing.next_nodes_map.v[k].id)

\* C27: the terminal check comes before routing: an iteration at a terminal
\* node (one that passed the id and cycle checks) ends the call as Diagnosed
\* at that node, without a move and without a routing choice made at it;
\* no terminal node is ever routed from, whatever its routing config and
\* next_raw name.
C27_TerminalBeforeRouting ==
    /\ [][(/\ pc = "loop"
           /\ hop < HopLimit
           /\ nodes[current_node].terminal
           /\ nodes[current_node].node_id # <<>>
           /\ nodes[current_node].node_id \notin seen_nodes)
            => /\ pc' = "return_terminal"
               /\ current_node' = current_node
               /\ hop' = hop
               /\ routed_from' = routed_from
               /\ ~HasPrefix(result'.text, FallbackPrefix)]_vars
    /\ [](routed_from # 0 => ~nodes[routed_from].terminal)

\* Diagnosed at a terminal node whose next_raw and routing config both name
\* nodes of the list
C27_Witness ==
    /\ pc = "return_terminal"
    /\ nodes[current_node].next_raw # <<>>
    /\ nodes[current_node].routing.t = "obj"
    /\ HasResolvingRoute(nodes[current_node])
    /\ routed_from # current_node

----------------------------------------------------------------------------
(* C28 *)

\* the first position of the node list whose start flag is set
FirstStartPosition ==
    CHOOSE i \in 1..Len(nodes) :
        /\ nodes[i].start
        /\ \A j \in 1..(i - 1) : ~nodes[j].start

\* C28: the start node is taken from the node list, not from the registry:
\* the traversal begins at the first start-flagged record even when a later
\* record shares its id, and the first iteration uses that earlier record's
\* terminal flag, payload and routing.
C28_StartFromList ==
    /\ (pc \in {"loop", "return_terminal", "return_fallback"} /\ hop = 0) =>
          current_node = FirstStartPosition
    /\ (pc = "return_terminal" /\ hop = 0) =>
          /\ nodes[FirstStartPosition].terminal
          /\ result = TerminalResult(nodes[FirstStartPosition])
    /\ hop = 1 => routed_from = FirstStartPosition

\* Diagnosed at a terminal start record although the registry holds a later,
\* non-terminal record under the same id
C28_Witness ==
    /\ pc = "return_terminal"
    /\ hop = 0
    /\ nodes[current_node].node_id \in DOMAIN node_index
    /\ node_index[nodes[current_node].node_id] > current_node
    /\ ~nodes[node_index[nodes[current_node].node_id]].terminal

\* moved on from a start record by its own next_raw although the registry
\* holds a later record under the same id
C28_WitnessRouted ==
    /\ hop = 1
    /\ nodes[routed_from].node_id \in DOMAIN node_index
    /\ node_index[nodes[routed_from].node_id] > routed_from

----------------------------------------------------------------------------
(* C29 *)

\* the call began at a start record whose id is empty or missing
StartedAtEmptyId ==
    /\ pc \in {"loop", "return_terminal", "return_fallback"}
    /\ nodes[FirstStartPosition].node_id = <<>>

\* C29: a record with an empty or missing id is never in the registry and
\* is never reached by a transition; a call whose start node has an empty
\* id returns the Fallback result without a move, even when that node is
\* terminal.
C29_EmptyIdNeverUsed ==
    /\ pc \notin {"entry", "return_no_data"} => <<>> \notin DOMAIN node_index
    /\ hop > 0 => nodes[current_node].node_id # <<>>
    /\ StartedAtEmptyId =>
          /\ hop = 0
          /\ routed_from = 0
          /\ pc # "return_terminal"
          /\ Returned => /\ pc = "return_fallback"
                         /\ result = FallbackResult(user_input)

\* stopped at a node whose next_raw yields an empty id although the list
\* holds a record that has no id
C29_WitnessTransition ==
    /\ pc = "return_fallback"
    /\ nodes[current_node].node_id # <<>>
    /\ \E k \in 1..Len(NextIds(nodes[current_node].next_raw)) :
           NextIds(nodes[current_node].next_raw)[k] = <<>>
    /\ \E j \in 1..Len(nodes) : nodes[j].node_id = <<>>

\* Fallback returned at a terminal start record that has no id
C29_Witness ==
    /\ pc = "return_fallback"
    /\ hop = 0
    /\ nodes[current_node].terminal
    /\ nodes[current_node].node_id = <<>>
    /\ HasPrefix(result.text, FallbackPrefix)

----------------------------------------------------------------------------
(* C30 *)

\* C30: a Diagnosed result never has an empty text: when the terminal
\* node's result, steps and cautions are all empty, the text is the fixed
\* message "診断完了" (diagnosis complete).
C30_DiagnosedTextNotEmpty ==
    pc = "return_terminal" =>
        /\ result.end
        /\ result.text # <<>>
        /\ AllEmpty(nodes[current_node]) => result.text = DoneText

\* Diagnosed at a terminal node whose three payload fields are empty
C30_Witness ==
    /\ pc = "return_terminal"
    /\ AllEmpty(nodes[current_node])
    /\ result.text = DoneText

====
